---- MODULE Spec2Model ----
(***************************************************************************)
(* Model of the Mavely authentication service (services/auth.ts) and the   *)
(* affiliate link service (services/affiliate.ts) of the Discord bot.      *)
(*                                                                         *)
(* The module-level cache (authToken, tokenExpiry) is shared by every      *)
(* caller.  Each async call runs on the single JavaScript thread: the code *)
(* between two awaits is one atomic step, and calls interleave only at     *)
(* their awaits (the login request and the link request).                  *)
(* Time is counted in hours.                                               *)
(***************************************************************************)
EXTENDS Integers, FiniteSets, Sequences, TLC

\* ---- bounds of the model ----
NumCallers == 2
MaxTime == 1

\* ---- program constants ----
TOKEN_EXPIRY_HOURS == 1

Callers == 1..NumCallers

NULL == "null"
NoDate == <<>>
DateOf(t) == <<t>>
Time(d) == d[1]

\* tokens the login endpoint may hand out
Tokens == {"t1", "t2"}
\* links the link endpoint may hand out
Links == {"https://mavely.com/affiliate?ref=12345"}
\* arguments given to generateAffiliateLink
Urls == {"", "invalid-url", "https://example.com/product"}

\* JavaScript truthiness of a string | null | undefined value
Truthy(v) == v \notin {NULL, ""}

\* outcomes of axios.post(loginUrl, ...): rejected, or fulfilled with a body
LoginResponses ==
    {[status |-> "rejected", data |-> FALSE, token |-> NULL],
     [status |-> "ok", data |-> FALSE, token |-> NULL],
     [status |-> "ok", data |-> TRUE, token |-> NULL],
     [status |-> "ok", data |-> TRUE, token |-> ""]}
    \cup {[status |-> "ok", data |-> TRUE, token |-> t] : t \in Tokens}

\* outcomes of axios.post(`${MAVELY_API_URL}/link`, ...); "unauthorized" is a
\* rejection because the API no longer accepts the Bearer token
LinkResponses ==
    {[status |-> "rejected", data |-> FALSE, affiliateLink |-> NULL],
     [status |-> "unauthorized", data |-> FALSE, affiliateLink |-> NULL],
     [status |-> "ok", data |-> FALSE, affiliateLink |-> NULL],
     [status |-> "ok", data |-> TRUE, affiliateLink |-> NULL],
     [status |-> "ok", data |-> TRUE, affiliateLink |-> ""]}
    \cup {[status |-> "ok", data |-> TRUE, affiliateLink |-> l] : l \in Links}

VARIABLES
    authToken,      \* auth.ts: let authToken
    tokenExpiry,    \* auth.ts: let tokenExpiry
    now,            \* the clock read by new Date() / Date.now()
    calls,          \* one record per caller slot: the async call it runs
    hist            \* history of the cache, for stating the properties

vars == <<authToken, tokenExpiry, now, calls, hist>>

\* contents of chat messages, as their words
Contents == {<<>>, <<"invalid-url">>, <<"see", "https://example.com/product">>}

\* the words the pattern https?:\/\/[^\s]+ of handleLink matches
MatchingWords == {"https://example.com/product"} \cup Links

\* messages other accounts post: users, and other bots
UserMessages == {[bot |-> FALSE, content |-> c] : c \in Contents}
BotMessages == {[bot |-> TRUE, content |-> <<"see", "https://example.com/product">>]}

\* the calls that run generateAffiliateLink: direct calls, and handleLink
LinkKinds == {"generateAffiliateLink", "handleLink"}

\* a caller slot with no call in progress.  loginResp and sawExpired are the
\* history of the call's authentication step (the login response it got, and
\* whether it found an expired token in the cache); they are kept until the
\* token is used for a link request.  linkGot is the affiliateLink the link
\* response carried.  For a message handler: fromBot tells whether the
\* message handled was written by a bot, generations counts the
\* generateAffiliateLink calls made for the message, reply, replyLink and
\* replies describe the replies sent.
IdleCall ==
    [kind |-> "none", pc |-> "idle", url |-> NULL, token |-> NULL,
     result |-> NULL, settled |-> "pending",
     linkRequests |-> 0, bearer |-> NULL,
     loginResp |-> "none", linkResp |-> "none", sawExpired |-> FALSE,
     linkGot |-> NULL, fromBot |-> FALSE, generations |-> 0,
     reply |-> "none", replyLink |-> NULL, replies |-> 0]

\* history of a call start: who started, and what the history held at its
\* cache check
NoStart ==
    [caller |-> 0, afterClear |-> FALSE, expect |-> {}, boot |-> "none",
     ignored |-> "none"]

\* hist.cleared:   clearAuthToken has returned and no call was made since
\* hist.okLogins:  the logins that succeeded since the last clear and whose
\*                 token is not yet expired: the token, and the time one
\*                 TOKEN_EXPIRY_HOURS after the login
\* hist.fresh:     the process has (re)started and no call was made since
\* hist.savedToken, hist.savedExpiry: the cache as it was when the process
\*                 last stopped (what a persisted session would hold)
\* hist.last:      the call start that was the step just taken, if it was one;
\*                 last.ignored tells whether the step just taken was the
\*                 message handler ignoring a bot's message, and which
InitHist ==
    [cleared |-> FALSE, okLogins |-> {}, fresh |-> TRUE,
     savedToken |-> NULL, savedExpiry |-> NoDate, last |-> NoStart]

Init ==
    /\ authToken = NULL
    /\ tokenExpiry = NoDate
    /\ now = 0
    /\ calls = [p \in Callers |-> IdleCall]
    /\ hist = InitHist

\* the cache check with the comparison off by one: a token is still served
\* at the very time it expires
CacheValidInclusive ==
    /\ Truthy(authToken)
    /\ tokenExpiry # NoDate
    /\ now <= Time(tokenExpiry)

\* auth.ts line 16: authToken && tokenExpiry && new Date() < tokenExpiry
CacheValid ==
    /\ Truthy(authToken)
    /\ tokenExpiry # NoDate
    /\ now < Time(tokenExpiry)

\* auth.ts line 33: new Date(Date.now() + TOKEN_EXPIRY_HOURS * 60 * 60 * 1000)
ExpiryAfter(t) == DateOf(t + TOKEN_EXPIRY_HOURS)

\* auth.ts lines 30-47: the value loginToMavely resolves to for a response
LoginResult(r) ==
    IF r.status = "ok" /\ r.data /\ Truthy(r.token) THEN r.token ELSE NULL

\* loginToMavely without its catch block: a rejected request rejects the call
LoginSettlesUncaught(r) ==
    IF r.status = "rejected" THEN "rejected" ELSE "resolved"

\* auth.ts lines 14, 40-47: the try/catch turns a rejected request into a
\* resolved promise
LoginSettles(r) == "resolved"

\* how the history classifies a login response
LoginRespKind(r) ==
    IF r.status = "rejected" THEN "rejected"
    ELSE IF r.data /\ Truthy(r.token) THEN "token" ELSE "notoken"

\* the stale pair a call sees at its cache check: a token whose expiry passed
CacheExpired ==
    /\ Truthy(authToken)
    /\ tokenExpiry # NoDate
    /\ now >= Time(tokenExpiry)

\* what a persisted session would still offer at the first call after a start
SavedValid ==
    /\ Truthy(hist.savedToken)
    /\ hist.savedExpiry # NoDate
    /\ now < Time(hist.savedExpiry)

\* the history once a further step is taken
Past(h) == [h EXCEPT !.last = NoStart]

\* a call of caller p starts: the history records what it found and the
\* flags it consumes are reset
CallStarted(p) ==
    hist' = [hist EXCEPT
               !.cleared = FALSE, !.fresh = FALSE,
               !.savedToken = NULL, !.savedExpiry = NoDate,
               !.last = [caller |-> p,
                         afterClear |-> hist.cleared,
                         expect |-> {e.token : e \in hist.okLogins},
                         boot |-> IF ~hist.fresh THEN "none"
                                  ELSE IF SavedValid THEN "warm" ELSE "cold",
                         ignored |-> "none"]]

\* the call issued a login request: it waits for the response or has got it
LoginIssued(c) == c.pc = "awaitLogin" \/ c.loginResp # "none"

\* The synchronous part of loginToMavely (auth.ts lines 13-28): the cache
\* check, and on a miss the login request.  next is where the caller goes
\* once loginToMavely has resolved.
LoginToMavelyStart(c, next) ==
    IF CacheValid
    THEN [c EXCEPT !.token = authToken, !.pc = next]
    ELSE [c EXCEPT !.pc = "awaitLogin"]

\* the value a finished auth call hands to its caller
Finish(c) ==
    IF c.pc = "done" THEN [c EXCEPT !.result = c.token, !.settled = "resolved"]
    ELSE c

\* auth.ts lines 13-18: loginToMavely() is called
CallLoginToMavely(p) ==
    /\ calls[p].pc = "idle"
    /\ calls' = [calls EXCEPT ![p] =
         Finish(LoginToMavelyStart(
            [IdleCall EXCEPT !.kind = "loginToMavely",
                             !.sawExpired = CacheExpired], "done"))]
    /\ CallStarted(p)
    /\ UNCHANGED <<authToken, tokenExpiry, now>>

\* auth.ts lines 54-56: getAuthToken() delegates to loginToMavely()
CallGetAuthToken(p) ==
    /\ calls[p].pc = "idle"
    /\ calls' = [calls EXCEPT ![p] =
         Finish(LoginToMavelyStart(
            [IdleCall EXCEPT !.kind = "getAuthToken",
                             !.sawExpired = CacheExpired], "done"))]
    /\ CallStarted(p)
    /\ UNCHANGED <<authToken, tokenExpiry, now>>

\* affiliate.ts lines 6-9: generateAffiliateLink(url) is called and awaits
\* getAuthToken()
CallGenerateAffiliateLink(p, u) ==
    /\ calls[p].pc = "idle"
    /\ calls' = [calls EXCEPT ![p] =
         LoginToMavelyStart(
            [IdleCall EXCEPT !.kind = "generateAffiliateLink", !.url = u,
                             !.sawExpired = CacheExpired],
            "authReturned")]
    /\ CallStarted(p)
    /\ UNCHANGED <<authToken, tokenExpiry, now>>

\* loginToMavely posting the login request again when it has failed
LoginResponseRetrying(p, r) ==
    /\ calls[p].pc = "awaitLogin"
    /\ LET tok == LoginResult(r)
           after == IF tok = NULL THEN "awaitLogin"
                    ELSE IF calls[p].kind \in LinkKinds
                    THEN "authReturned" ELSE "done"
           c == [calls[p] EXCEPT !.token = tok, !.pc = after,
                                 !.loginResp = LoginRespKind(r)]
       IN /\ calls' = [calls EXCEPT ![p] = Finish(c)]
          /\ IF tok # NULL
             THEN /\ authToken' = tok
                  /\ tokenExpiry' = ExpiryAfter(now)
                  /\ hist' = [Past(hist) EXCEPT !.okLogins = @ \cup
                        {[token |-> tok,
                          expiry |-> DateOf(now + TOKEN_EXPIRY_HOURS)]}]
             ELSE /\ UNCHANGED <<authToken, tokenExpiry>>
                  /\ hist' = Past(hist)
    /\ UNCHANGED now

\* loginToMavely dropping the cached token when the login has failed
LoginResponseDroppingCache(p, r) ==
    /\ calls[p].pc = "awaitLogin"
    /\ LET tok == LoginResult(r)
           after == IF calls[p].kind \in LinkKinds
                    THEN "authReturned" ELSE "done"
           c == [calls[p] EXCEPT !.token = tok, !.pc = after,
                                 !.loginResp = LoginRespKind(r)]
       IN /\ calls' = [calls EXCEPT ![p] = Finish(c)]
          /\ IF tok # NULL
             THEN /\ authToken' = tok
                  /\ tokenExpiry' = ExpiryAfter(now)
                  /\ hist' = [Past(hist) EXCEPT !.okLogins = @ \cup
                        {[token |-> tok,
                          expiry |-> DateOf(now + TOKEN_EXPIRY_HOURS)]}]
             ELSE /\ authToken' = NULL
                  /\ tokenExpiry' = NoDate
                  /\ hist' = [Past(hist) EXCEPT !.okLogins = {}]
    /\ UNCHANGED now

\* auth.ts lines 21-47: the login request of caller p settles with r
LoginResponse(p, r) ==
    /\ calls[p].pc = "awaitLogin"
    /\ LET tok == LoginResult(r)
           after == IF calls[p].kind \in LinkKinds
                    THEN "authReturned" ELSE "done"
           c == [calls[p] EXCEPT !.token = tok, !.pc = after,
                                 !.loginResp = LoginRespKind(r)]
       IN /\ IF LoginSettles(r) = "resolved"
             THEN calls' = [calls EXCEPT ![p] = Finish(c)]
             ELSE calls' = [calls EXCEPT ![p] =
                     [c EXCEPT !.pc = "done", !.settled = "rejected"]]
          /\ IF tok # NULL
             THEN /\ authToken' = tok
                  /\ tokenExpiry' = ExpiryAfter(now)
                  /\ hist' = [Past(hist) EXCEPT !.okLogins = @ \cup
                        {[token |-> tok,
                          expiry |-> DateOf(now + TOKEN_EXPIRY_HOURS)]}]
             ELSE /\ UNCHANGED <<authToken, tokenExpiry>>
                  /\ hist' = Past(hist)
    /\ UNCHANGED now

\* the Bearer credential read from the shared cache instead of the value
\* getAuthToken() returned
BearerFromCache(c) == authToken

\* affiliate.ts line 23: the Bearer credential of the link request
Bearer(c) == c.token

\* affiliate.ts lines 11-14: no token, no link request
AuthFailed(c) == ~Truthy(c.token)

\* where a call is once generateAffiliateLink has settled: a direct call is
\* done, handleLink goes on to its reply
GenDone(c) == IF c.kind = "handleLink" THEN "genReturned" ELSE "done"

\* affiliate.ts lines 9-27: getAuthToken() has resolved; the link request is
\* sent with the token it returned, or the call gives up
GenAfterAuth(p) ==
    /\ calls[p].pc = "authReturned"
    /\ calls' = [calls EXCEPT ![p] =
         IF AuthFailed(calls[p])
         THEN [@ EXCEPT !.pc = GenDone(calls[p]), !.result = NULL,
                        !.settled = "resolved"]
         ELSE [@ EXCEPT !.pc = "awaitLink", !.linkRequests = @ + 1,
                        !.bearer = Bearer(calls[p]),
                        !.loginResp = "none", !.sawExpired = FALSE]]
    /\ hist' = Past(hist)
    /\ UNCHANGED <<authToken, tokenExpiry, now>>

\* generateAffiliateLink returning the affiliateLink field without testing it
LinkResultUntested(r) ==
    IF r.status = "ok" /\ r.data THEN r.affiliateLink ELSE NULL

\* affiliate.ts lines 29-42: the value generateAffiliateLink resolves to
LinkResult(r) ==
    IF r.status = "ok" /\ r.data /\ Truthy(r.affiliateLink)
    THEN r.affiliateLink ELSE NULL

\* affiliate.ts lines 16-42: the link request of caller p settles with r
LinkResponse(p, r) ==
    /\ calls[p].pc = "awaitLink"
    /\ calls' = [calls EXCEPT ![p] =
         [@ EXCEPT !.pc = GenDone(calls[p]), !.result = LinkResult(r),
                   !.settled = "resolved", !.linkResp = r.status,
                   !.linkGot = IF r.status = "ok" /\ r.data
                               THEN r.affiliateLink ELSE NULL]]
    /\ hist' = Past(hist)
    /\ UNCHANGED <<authToken, tokenExpiry, now>>

\* IMPLEMENTATION.md lines 84-85: message.content.match(urlRegex)
MatchUrls(content) == SelectSeq(content, LAMBDA w : w \in MatchingWords)

\* IMPLEMENTATION.md lines 91, 94, 97: the words of a reply
ReplyText(c) ==
    CASE c.reply = "link" ->
            <<"Here is your Mavely affiliate link:", c.replyLink>>
      [] c.reply = "error" ->
            <<"There was an error generating your affiliate link.">>
      [] OTHER ->
            <<"Please send a valid link to generate an affiliate link.">>

\* a message handler that answers bots too
IgnoredNever(m) == FALSE

\* part_002 line 14: if (!message.author.bot)
Ignored(m) == m.bot

\* IMPLEMENTATION.md lines 83-97: handleLink(message) up to its await, for a
\* slot whose counters are those of c
HandleLink(c, m) ==
    LET urls == MatchUrls(m.content)
        h == [IdleCall EXCEPT !.kind = "handleLink", !.fromBot = m.bot,
                              !.generations = c.generations,
                              !.replies = c.replies]
    IN IF Len(urls) > 0
       THEN LoginToMavelyStart(
               [h EXCEPT !.url = urls[1], !.generations = @ + 1,
                         !.sawExpired = CacheExpired], "authReturned")
       ELSE [h EXCEPT !.pc = "replied", !.reply = "prompt", !.replies = @ + 1]

\* the history after the handler has run on message m for caller p
Handled(p, m, how) ==
    IF Ignored(m)
    THEN hist' = [Past(hist) EXCEPT !.last.ignored = how]
    ELSE IF Len(MatchUrls(m.content)) > 0
         THEN CallStarted(p)
         ELSE hist' = Past(hist)

\* part_002 lines 13-17: messageCreate fires for a message of another account
MessageCreate(p, m) ==
    /\ calls[p].pc = "idle"
    /\ calls' = IF Ignored(m) THEN calls
                ELSE [calls EXCEPT ![p] = HandleLink(IdleCall, m)]
    /\ Handled(p, m, "other")
    /\ UNCHANGED <<authToken, tokenExpiry, now>>

\* handleLink sending the error reply after the link reply as well
HandleLinkReplyTwice(p) ==
    /\ calls[p].pc = "genReturned"
    /\ calls' = [calls EXCEPT ![p] =
         [@ EXCEPT !.pc = "replied", !.reply = "error", !.replies = @ + 2]]
    /\ hist' = Past(hist)
    /\ UNCHANGED <<authToken, tokenExpiry, now>>

\* IMPLEMENTATION.md lines 89-95: generateAffiliateLink has settled and
\* handleLink replies
HandleLinkReply(p) ==
    /\ calls[p].pc = "genReturned"
    /\ calls' = [calls EXCEPT ![p] =
         IF calls[p].settled = "rejected"
         THEN [@ EXCEPT !.pc = "replied", !.reply = "error", !.replies = @ + 1]
         ELSE [@ EXCEPT !.pc = "replied", !.reply = "link",
                        !.replyLink = calls[p].result, !.replies = @ + 1]]
    /\ hist' = Past(hist)
    /\ UNCHANGED <<authToken, tokenExpiry, now>>

\* part_002 lines 13-17: messageCreate fires for the reply the bot has sent
OwnReplyCreated(p) ==
    /\ calls[p].pc = "replied"
    /\ LET m == [bot |-> TRUE, content |-> ReplyText(calls[p])]
       IN /\ calls' = [calls EXCEPT ![p] =
                IF Ignored(m) THEN IdleCall ELSE HandleLink(calls[p], m)]
          /\ Handled(p, m, IF Len(MatchUrls(m.content)) > 0
                           THEN "ownLink" ELSE "ownText")
    /\ UNCHANGED <<authToken, tokenExpiry, now>>

\* the caller has received the settled promise; the slot is free again
Settle(p) ==
    /\ calls[p].pc = "done"
    /\ calls' = [calls EXCEPT ![p] = IdleCall]
    /\ hist' = Past(hist)
    /\ UNCHANGED <<authToken, tokenExpiry, now>>

\* clearAuthToken forgetting the expiry
ClearTokenOnly ==
    /\ authToken' = NULL
    /\ hist' = [Past(hist) EXCEPT !.cleared = TRUE, !.okLogins = {}]
    /\ UNCHANGED <<tokenExpiry, now, calls>>

\* auth.ts lines 61-64
ClearAuthToken ==
    /\ authToken' = NULL
    /\ tokenExpiry' = NoDate
    /\ hist' = [Past(hist) EXCEPT !.cleared = TRUE, !.okLogins = {}]
    /\ UNCHANGED <<now, calls>>

\* an hour passes; tokens that expire leave the history
Tick ==
    /\ now < MaxTime
    /\ now' = now + 1
    /\ hist' = [Past(hist) EXCEPT !.okLogins =
                  {e \in @ : now + 1 < Time(e.expiry)}]
    /\ UNCHANGED <<authToken, tokenExpiry, calls>>

\* a restart that finds the cache as the stopped process left it
RestartKeepingCache ==
    /\ ~hist.fresh
    /\ calls' = [p \in Callers |-> IdleCall]
    /\ hist' = [InitHist EXCEPT !.savedToken = authToken,
                                !.savedExpiry = tokenExpiry]
    /\ UNCHANGED <<authToken, tokenExpiry, now>>

\* auth.ts lines 6-7: the process restarts; the module is loaded again, the
\* cache starts empty and every call in progress is gone
Restart ==
    /\ ~hist.fresh
    /\ authToken' = NULL
    /\ tokenExpiry' = NoDate
    /\ calls' = [p \in Callers |-> IdleCall]
    /\ hist' = [InitHist EXCEPT !.savedToken = authToken,
                                !.savedExpiry = tokenExpiry]
    /\ UNCHANGED now

Next ==
    \/ \E p \in Callers : CallLoginToMavely(p)
    \/ \E p \in Callers : CallGetAuthToken(p)
    \/ \E p \in Callers, u \in Urls : CallGenerateAffiliateLink(p, u)
    \/ \E p \in Callers, r \in LoginResponses : LoginResponse(p, r)
    \/ \E p \in Callers : GenAfterAuth(p)
    \/ \E p \in Callers, r \in LinkResponses : LinkResponse(p, r)
    \/ \E p \in Callers : Settle(p)
    \/ \E p \in Callers, m \in UserMessages \cup BotMessages : MessageCreate(p, m)
    \/ \E p \in Callers : HandleLinkReply(p)
    \/ \E p \in Callers : OwnReplyCreated(p)
    \/ ClearAuthToken
    \/ Tick
    \/ Restart

Spec == Init /\ [][Next]_vars

\* a step of the message handler of caller p after its first await: a
\* request settles, or a continuation runs on the event loop
HandlerStep(p) ==
    \/ \E r \in LoginResponses : LoginResponse(p, r)
    \/ GenAfterAuth(p)
    \/ \E r \in LinkResponses : LinkResponse(p, r)
    \/ HandleLinkReply(p)

\* the event loop runs every continuation that is ready, and every request
\* sent to the Mavely API settles
FairSpec == Spec /\ \A p \in Callers : WF_vars(HandlerStep(p))

\* ---------------------------------------------------------------------
\* The call whose start was the step just taken
JustStarted == hist.last.caller # 0
Starter == calls[hist.last.caller]

\* C1: at most one login request to the login endpoint is in flight at any
\* time; concurrent callers that find no valid token share one request.
C1_SingleLoginInFlight ==
    Cardinality({p \in Callers : calls[p].pc = "awaitLogin"}) <= 1

\* C2: after a login has succeeded, a call made before that token expires
\* and with no clearAuthToken in between issues no login request and returns
\* that same token.
C2_CachedTokenReused ==
    (JustStarted /\ hist.last.expect # {}) =>
        /\ ~LoginIssued(Starter)
        /\ \A t \in hist.last.expect : Starter.token = t

\* C3: the first call made after clearAuthToken has returned issues a new
\* login request instead of being served from the cache.
C3_ClearForcesLogin ==
    (JustStarted /\ hist.last.afterClear) => LoginIssued(Starter)

\* C4: a call that finds a token in the cache at or after its expiry time
\* does not return it but issues a login request; and a token the cache
\* serves is the token of a successful login together with the expiry one
\* TOKEN_EXPIRY_HOURS after that login.
C4_ReauthOnExpiry ==
    /\ \A p \in Callers : calls[p].sawExpired => LoginIssued(calls[p])
    /\ (Truthy(authToken) /\ tokenExpiry # NoDate /\ now < Time(tokenExpiry))
          => [token |-> authToken, expiry |-> tokenExpiry] \in hist.okLogins

\* C4 witness: a call found an expired token, logged in again, and the cache
\* now holds the new token with an expiry one hour from now
C4_Witness ==
    \E p \in Callers :
        /\ calls[p].sawExpired
        /\ calls[p].loginResp = "token"
        /\ authToken = calls[p].token
        /\ tokenExpiry = DateOf(now + TOKEN_EXPIRY_HOURS)

\* C5: loginToMavely never throws: when the login request is rejected or the
\* response carries no token, the call resolves to null.
C5_LoginNeverThrows ==
    \A p \in Callers :
        /\ calls[p].settled # "rejected"
        /\ calls[p].loginResp \in {"rejected", "notoken"} =>
              /\ calls[p].token = NULL
              /\ calls[p].kind \in {"loginToMavely", "getAuthToken"} =>
                    (calls[p].settled = "resolved" /\ calls[p].result = NULL)

\* C5 witness: one call whose login request was rejected and one whose login
\* response had no token, both resolved to null
C5_Witness ==
    \E p, q \in Callers :
        /\ calls[p].kind = "loginToMavely"
        /\ calls[p].loginResp = "rejected"
        /\ calls[p].settled = "resolved" /\ calls[p].result = NULL
        /\ calls[q].kind = "loginToMavely"
        /\ calls[q].loginResp = "notoken"
        /\ calls[q].settled = "resolved" /\ calls[q].result = NULL

\* C6: generateAffiliateLink sends a link request only after getAuthToken
\* returned a non-null token, with that token as the Bearer credential; when
\* getAuthToken returns null no link request is sent and the call resolves
\* to null.
C6_AuthBeforeLink ==
    \A p \in Callers :
        calls[p].kind = "generateAffiliateLink" =>
            /\ calls[p].linkRequests > 0 =>
                  (Truthy(calls[p].token) /\ calls[p].bearer = calls[p].token)
            /\ (calls[p].pc = "done" /\ ~Truthy(calls[p].token)) =>
                  /\ calls[p].linkRequests = 0
                  /\ calls[p].settled = "resolved"
                  /\ calls[p].result = NULL

\* C6 witness: one call has sent its link request with the token it got, while
\* the cache no longer holds that token; another gave up after a failed login
C6_Witness ==
    \E p, q \in Callers :
        /\ calls[p].kind = "generateAffiliateLink"
        /\ calls[p].pc = "awaitLink"
        /\ calls[p].bearer = calls[p].token
        /\ authToken # calls[p].token
        /\ calls[q].kind = "generateAffiliateLink"
        /\ calls[q].pc = "done"
        /\ calls[q].loginResp = "rejected"
        /\ calls[q].linkRequests = 0 /\ calls[q].result = NULL

\* C7: at most one generateAffiliateLink operation (authentication plus link
\* request) executes at a time.
C7_OneLinkGenerationAtATime ==
    Cardinality({p \in Callers :
        /\ calls[p].kind = "generateAffiliateLink"
        /\ calls[p].pc \in {"awaitLogin", "authReturned", "awaitLink"}}) <= 1

\* C8: when the link request is refused because the API no longer accepts
\* the token, generateAffiliateLink logs in again and retries the link
\* request exactly once before it returns.
C8_RetryAfterSilentExpiry ==
    \A p \in Callers :
        (/\ calls[p].kind = "generateAffiliateLink"
         /\ calls[p].pc = "done"
         /\ calls[p].linkResp = "unauthorized") => calls[p].linkRequests = 2

\* C9: generateAffiliateLink rejects when given the empty string or a string
\* that is not a URL, instead of resolving.
C9_BadUrlRejected ==
    \A p \in Callers :
        (/\ calls[p].kind = "generateAffiliateLink"
         /\ calls[p].pc = "done"
         /\ calls[p].url \in {"", "invalid-url"}) => calls[p].settled = "rejected"

C11_LoginFailureSurfaced ==
    \A p \in Callers :
        /\ calls[p].loginResp # "none" => calls[p].pc # "awaitLogin"
        /\ calls[p].loginResp \in {"rejected", "notoken"} =>
              /\ calls[p].pc \in {"authReturned", "genReturned", "replied", "done"}
              /\ calls[p].linkRequests = 0
              /\ calls[p].pc # "authReturned" => calls[p].result = NULL

\* C11 witness: every login so far has failed (the cache is still empty), one
\* loginToMavely call and one generateAffiliateLink call have ended with null
C11_Witness ==
    \E p, q \in Callers :
        /\ authToken = NULL
        /\ calls[p].kind = "loginToMavely"
        /\ calls[p].loginResp = "rejected"
        /\ calls[p].pc = "done" /\ calls[p].result = NULL
        /\ calls[q].kind = "generateAffiliateLink"
        /\ calls[q].loginResp = "rejected"
        /\ calls[q].pc = "done" /\ calls[q].result = NULL

\* C16: the cached token and the cached expiry are both null or both set.
C16_CachePairConsistent ==
    (authToken = NULL) <=> (tokenExpiry = NoDate)

\* C16 witness: clearAuthToken ran while a login was in flight, and the
\* response then filled token and expiry together
C16_Witness ==
    /\ hist.cleared
    /\ Truthy(authToken)
    /\ tokenExpiry # NoDate

\* C17: a login that fails (rejected request, or response without a token)
\* leaves the cached token and the cached expiry as they were.
C17_FailedLoginKeepsCache ==
    [][\A p \in Callers :
          (/\ calls[p].pc = "awaitLogin"
           /\ calls'[p].loginResp \in {"rejected", "notoken"})
          => (authToken' = authToken /\ tokenExpiry' = tokenExpiry)]_vars

\* C17 witness: a call found an expired token, its login was rejected, and
\* the cache still holds the old token with its old, passed expiry
C17_Witness ==
    \E p \in Callers :
        /\ calls[p].sawExpired
        /\ calls[p].loginResp = "rejected"
        /\ Truthy(authToken)
        /\ tokenExpiry # NoDate
        /\ now >= Time(tokenExpiry)

\* C18: a clear is not undone by an older login: as long as no call has
\* started since clearAuthToken, the cache stays empty (any token stored in
\* that time comes from a login request issued before the clear).
C18_ClearNotUndone ==
    hist.cleared => ~Truthy(authToken)

\* C12: generateAffiliateLink resolves to a non-null link only when the
\* response to its link request carried an affiliateLink, and then to exactly
\* that link; after any other outcome of the link request it resolves to
\* null.
C12_LinkOnlyFromResponse ==
    \A p \in Callers :
        (calls[p].kind \in LinkKinds /\ calls[p].pc \in {"done", "genReturned"}) =>
            /\ calls[p].settled = "resolved"
            /\ calls[p].result # NULL =>
                  /\ calls[p].linkResp = "ok"
                  /\ Truthy(calls[p].linkGot)
                  /\ calls[p].result = calls[p].linkGot
            /\ (calls[p].linkResp # "ok" \/ ~Truthy(calls[p].linkGot)) =>
                  calls[p].result = NULL

\* C12 witness: one call resolved to the link its response carried, another
\* got a response without a link and resolved to null
C12_Witness ==
    \E p, q \in Callers :
        /\ calls[p].kind = "generateAffiliateLink" /\ calls[p].pc = "done"
        /\ calls[p].result \in Links /\ calls[p].result = calls[p].linkGot
        /\ calls[q].kind = "generateAffiliateLink" /\ calls[q].pc = "done"
        /\ calls[q].linkResp = "ok" /\ calls[q].linkGot = ""
        /\ calls[q].result = NULL

\* what the replies of one message handler look like
RepliesOnce(c) ==
    /\ c.replies <= 1
    /\ (c.pc = "replied") <=> (c.replies = 1)
    /\ c.pc = "replied" =>
          IF c.url # NULL THEN c.reply \in {"link", "error"}
          ELSE c.reply = "prompt"

C14_FailureGetsErrorReply ==
    \A p \in Callers :
        (/\ calls[p].kind = "handleLink"
         /\ calls[p].pc = "replied"
         /\ calls[p].url # NULL
         /\ ~Truthy(calls[p].result)) => calls[p].reply = "error"

\* C15: a message written by a bot never starts handleLink, so one user
\* message causes at most one generateAffiliateLink call and at most one
\* reply, and the bot's own reply starts nothing.
C15_NoReplyLoop ==
    \A p \in Callers :
        /\ ~calls[p].fromBot
        /\ calls[p].generations <= 1
        /\ calls[p].replies <= 1
        /\ calls[p].kind = "handleLink" =>
              calls[p].generations = IF calls[p].url # NULL THEN 1 ELSE 0

\* C15 witness: the handler has just ignored the bot's own reply, which
\* contained an affiliate URL
C15_Witness ==
    /\ hist.last.ignored = "ownLink"
    /\ \A p \in Callers : calls[p].pc # "replied"

====
